---- MODULE Spec2Model ----
(***************************************************************************)
(* Model of src/application.py: a Flask application with four routes       *)
(* (GET /health, GET /events, POST /events, GET /data) over one MySQL      *)
(* table "events", reached through pymysql.                                *)
(*                                                                         *)
(* Each request is served by its own thread (Flask's request handling);    *)
(* a handler is cut into atomic steps at its interactions with the         *)
(* database: every connect, execute, commit is one step, and the code      *)
(* that runs between two of them belongs to the later step.  The pc of a   *)
(* request names the source line of the database call it is about to       *)
(* make.                                                                   *)
(*                                                                         *)
(* The database is modelled by what the statements of the source need:     *)
(* whether the server is reachable (dbUp), whether the table exists, its   *)
(* AUTO_INCREMENT counter, the committed rows, and the row each open       *)
(* transaction has inserted but not committed.  pymysql is taken at the    *)
(* behaviour of its 1.x releases: a Connection used in a with statement    *)
(* is closed when the block is left, autocommit is off, close() never      *)
(* raises, and an unreferenced Connection is closed by its finalizer, at   *)
(* a time the Python runtime chooses.                                      *)
(*                                                                         *)
(* Line 143 of the source is not a statement of the language.  The model   *)
(* covers both readings of fetch_data_from_db: the line fails when it is   *)
(* reached, or it is dropped and the SELECT of lines 135-142 is sent; the  *)
(* SELECT lacks the comma between the `date` alias and location, and the   *)
(* server rejects it.                                                      *)
(***************************************************************************)
EXTENDS Integers, Sequences, FiniteSets, TLC

\* Bounds of the model.
MaxRequests == 2
Threads == {"t1", "t2"}

VARIABLES
    environ,      \* os.environ: the required variables that are set and non-empty
    dbUp,         \* the MySQL server accepts connections and statements
    tableExists,  \* the events table exists
    autoInc,      \* the table's AUTO_INCREMENT counter: the next id
    rows,         \* the committed rows of the events table
    req,          \* per thread, the request it is serving
    last,         \* the request answered most recently, with its response
    orphans,      \* open connections no name refers to any more
    accepted,     \* number of requests received so far
    acked         \* the creations answered 201: [no, body]

vars == <<environ, dbUp, tableExists, autoInc, rows, req, last, orphans, accepted, acked>>

----------------------------------------------------------------------------
\* Values

NoneVal == "None"

RequiredVars == {"DB_HOST", "DB_USER", "DB_PASSWORD", "DB_NAME"}

HEALTH == "GET /health"
LIST_EVENTS == "GET /events"
CREATE_EVENT == "POST /events"
GET_DATA == "GET /data"

ListRoutes == {LIST_EVENTS, GET_DATA}

Titles == {NoneVal, "", "Launch"}
Dates == {NoneVal, "", "2024-05-01"}

\* A request body.  kind is what the bytes are: no body, bytes that are not
\* JSON, the JSON array [], a non-empty JSON array, or a JSON object; an
\* object's absent keys are NoneVal.
Body(k, t, d, o) ==
    [kind |-> k, title |-> t, date |-> d,
     description |-> o, image_url |-> o, location |-> o]

NoBody == Body("absent", NoneVal, NoneVal, NoneVal)

\* The bodies requests are drawn from: the four that are no JSON object,
\* every object over Titles and Dates with no optional field, and one
\* object with a later date and every optional field.
Bodies ==
    {Body(k, NoneVal, NoneVal, NoneVal) : k \in {"absent", "malformed", "empty_array", "array"}}
    \cup {Body("object", t, d, NoneVal) : t \in Titles, d \in Dates}
    \cup {Body("object", "Launch", "2024-06-01", "x")}

\* Python truthiness of a value a JSON object can hold here.
Truthy(v) == v \notin {NoneVal, ""}

\* MySQL's conversion of a 'YYYY-MM-DD' string to a DATE column value.
StoreDate(s) ==
    CASE s = "2024-05-01" -> <<2024, 5, 1>>
      [] s = "2024-06-01" -> <<2024, 6, 1>>
      [] OTHER -> <<0, 0, 0>>

----------------------------------------------------------------------------
\* Responses

HealthyReply == "healthy"
CreatedReply == "Event created successfully"
MissingReply == "Missing required fields: 'title' and 'date'"

ErrorReply(route) ==
    CASE route = LIST_EVENTS -> "During events retrieval"
      [] route = CREATE_EVENT -> "During event creation"
      [] OTHER -> "During data retrieval"

IdleReq ==
    [pc |-> "idle", route |-> HEALTH, body |-> NoBody, no |-> 0,
     conns |-> {}, opened |-> 0, ensured |-> FALSE, stmt |-> FALSE,
     fault |-> FALSE, pending |-> {}, seen |-> {}, at |-> 0,
     status |-> 0, reply |-> "", result |-> <<>>]

NewReq(route, body) ==
    [IdleReq EXCEPT !.route = route, !.body = body, !.no = accepted + 1,
                    !.seen = IF route \in ListRoutes THEN acked ELSE {}]

\* The handler's return: the response is produced and the thread is free.
Respond(r, status, reply) ==
    [r EXCEPT !.pc = "done", !.status = status, !.reply = reply]

\* except Exception in list_events, create_event, get_data: 500.
\* envFault tells whether the exception came from the environment
\* (configuration, server unreachable) rather than from the code.
Raise(r, envFault) ==
    [Respond(r, 500, ErrorReply(r.route)) EXCEPT
        !.conns = {}, !.pending = {}, !.fault = envFault]

----------------------------------------------------------------------------
\* Pure parts of the handlers

\* request.get_json(force=True, silent=True) or {}  (line 36): a missing or
\* malformed body parses to None, and None and [] are falsy, so all three
\* become the empty dict; a non-empty array stays a list.
EmptyDict == Body("object", NoneVal, NoneVal, NoneVal)

Payload(body) ==
    IF body.kind \in {"absent", "malformed", "empty_array"} THEN EmptyDict ELSE body

\* payload.get exists on a dict only (lines 38-39): a list raises AttributeError.
HasGet(payload) == payload.kind = "object"

BothFieldsMissing(payload) == ~Truthy(payload.title) /\ ~Truthy(payload.date)

\* if not title or not date  (line 40)
MissingFields(payload) == ~Truthy(payload.title) \/ ~Truthy(payload.date)

NoMissingVars(env) == {}

\* missing = [var for var in required_vars if not os.environ.get(var)]  (line 70)
MissingVars(env) == {v \in RequiredVars : v \notin env}

\* get_db_connection (lines 60-84), as the exception it raises or "ok".
ConnectOutcome ==
    IF MissingVars(environ) # {} THEN "EnvironmentError"
    ELSE IF ~dbUp THEN "ConnectionError"
    ELSE "ok"

\* pymysql.connect is called only when no variable is missing (lines 71-76).
Attempts(outcome) == IF outcome = "EnvironmentError" THEN 0 ELSE 1

EntryPcNoEnsure(route) == IF route = CREATE_EVENT THEN "L111" ELSE "L132"

\* insert_data_into_db and fetch_data_from_db both begin with
\* create_db_table() (lines 109, 130), whose first statement is line 87.
EntryPc(route) == "L87"

\* Where create_db_table returns to: line 111 or line 132.
AfterEnsure(route) == IF route = CREATE_EVENT THEN "L111" ELSE "L132"

AutoIncAfterStuck(counter) == counter

\* id INT AUTO_INCREMENT PRIMARY KEY (line 93): the counter after an INSERT.
AutoIncAfter(counter) == counter + 1

MaxId(S) == IF S = {} THEN 0 ELSE CHOOSE m \in {x.id : x \in S} : \A y \in S : y.id <= m

InsertedIdFromCommitted(counter, committed) == MaxId(committed) + 1

\* The id an INSERT receives: the server hands out the counter's value,
\* one INSERT at a time, whatever other transactions have committed.
InsertedId(counter, committed) == counter

\* title VARCHAR(255) NOT NULL, date DATE NOT NULL (lines 94, 97): the server
\* refuses a row whose title or date is NULL.
NotNullOk(payload) == payload.title # NoneVal /\ payload.date # NoneVal

\* INSERT INTO events (title, description, image_url, date, location)
\* VALUES (...)  (lines 114-124); req is the number of the inserting request.
InsertedRow(payload, id, no) ==
    [id |-> id, title |-> payload.title, description |-> payload.description,
     image_url |-> payload.image_url, date |-> StoreDate(payload.date),
     location |-> payload.location, req |-> no]

healthProbing ==
    IF dbUp THEN [status |-> 200, reply |-> HealthyReply]
    ELSE [status |-> 503, reply |-> "unhealthy"]

\* health (lines 13-18)
health == [status |-> 200, reply |-> HealthyReply]

----------------------------------------------------------------------------
\* State

OpenConnections ==
    orphans + Cardinality({<<t, c>> \in Threads \X {"c87", "c89", "c111", "c132"} :
                              c \in req[t].conns})

Free(t) == req[t].pc = "idle" /\ accepted < MaxRequests

Init ==
    /\ environ \in SUBSET RequiredVars
    /\ dbUp \in BOOLEAN
    /\ tableExists = FALSE
    /\ autoInc = 1
    /\ rows = {}
    /\ req = [t \in Threads |-> IdleReq]
    /\ last = IdleReq
    /\ orphans = 0
    /\ accepted = 0
    /\ acked = {}

\* Thread t goes on as r; when r holds a response, the response is sent
\* and the thread is idle again.
\*
\* Local: a step of thread t that touches neither the database's contents nor the
\* unreferenced connections.
Put(t, r) ==
    /\ req' = [req EXCEPT ![t] = IF r.pc = "done" THEN IdleReq ELSE r]
    /\ last' = IF r.pc = "done" THEN r ELSE last

Local(t, r) ==
    /\ Put(t, r)
    /\ UNCHANGED <<environ, dbUp, tableExists, autoInc, rows, orphans, acked>>

----------------------------------------------------------------------------
\* Handlers, up to their first database call

\* GET /health
Health(t) ==
    /\ Free(t)
    /\ accepted' = accepted + 1
    /\ Local(t, Respond(NewReq(HEALTH, NoBody), health.status, health.reply))

\* POST /events: create_event, lines 35-43 up to the call of insert_data_into_db
CreateEvent(t) ==
    \E body \in Bodies :
        LET r == NewReq(CREATE_EVENT, body)
            payload == Payload(body)
        IN  /\ Free(t)
            /\ accepted' = accepted + 1
            /\ Local(t, IF ~HasGet(payload) THEN Raise(r, FALSE)
                        ELSE IF MissingFields(payload) THEN Respond(r, 400, MissingReply)
                        ELSE [r EXCEPT !.pc = EntryPc(CREATE_EVENT)])

\* GET /events: list_events, line 24
ListEvents(t) ==
    /\ Free(t)
    /\ accepted' = accepted + 1
    /\ Local(t, [NewReq(LIST_EVENTS, NoBody) EXCEPT !.pc = EntryPc(LIST_EVENTS)])

\* GET /data: get_data, line 54
GetData(t) ==
    /\ Free(t)
    /\ accepted' = accepted + 1
    /\ Local(t, [NewReq(GET_DATA, NoBody) EXCEPT !.pc = EntryPc(GET_DATA)])

----------------------------------------------------------------------------
\* create_db_table (lines 86-106)

\* Line 87: connection = get_db_connection(), outside the try: its
\* exception reaches the handler unwrapped.
EnsureConnect1(t) ==
    LET r == req[t]
        o == ConnectOutcome
        a == [r EXCEPT !.opened = @ + Attempts(o)]
    IN  /\ r.pc = "L87"
        /\ Local(t, IF o = "ok" THEN [a EXCEPT !.pc = "L89", !.conns = {"c87"}]
                    ELSE Raise(a, TRUE))
        /\ UNCHANGED accepted

\* Line 89: with get_db_connection() as connection.  A second connection is
\* opened and bound to the same name; the connection of line 87 is left
\* open with no name referring to it.  A failure here is raised inside the
\* try and becomes the RuntimeError of line 106; the function's frame goes,
\* and the connection of line 87 with it.
EnsureConnect2(t) ==
    LET r == req[t]
        o == ConnectOutcome
        a == [r EXCEPT !.opened = @ + Attempts(o)]
    IN  /\ r.pc = "L89"
        /\ Put(t, IF o = "ok" THEN [a EXCEPT !.pc = "L101", !.conns = {"c89"}]
                  ELSE Raise(a, TRUE))
        /\ orphans' = orphans + 1
        /\ UNCHANGED <<environ, dbUp, tableExists, autoInc, rows, accepted, acked>>

\* Lines 90-101: cursor.execute(CREATE TABLE IF NOT EXISTS events ...).  On
\* an error the with block closes its connection and line 106 raises.
EnsureExecute(t) ==
    LET r == req[t]
    IN  /\ r.pc = "L101"
        /\ Put(t, IF dbUp THEN [r EXCEPT !.pc = "L102"] ELSE Raise(r, TRUE))
        /\ tableExists' = (tableExists \/ dbUp)
        /\ UNCHANGED <<environ, dbUp, autoInc, rows, orphans, accepted, acked>>

\* Lines 102-103: connection.commit(), then the with block closes the
\* connection of line 89 and create_db_table returns.
EnsureCommit(t) ==
    LET r == req[t]
    IN  /\ r.pc = "L102"
        /\ Local(t, IF dbUp
                    THEN [r EXCEPT !.pc = AfterEnsure(r.route), !.conns = {},
                                   !.ensured = TRUE]
                    ELSE Raise(r, TRUE))
        /\ UNCHANGED accepted

----------------------------------------------------------------------------
\* insert_data_into_db (lines 108-127)

\* Line 111: connection = get_db_connection()
InsertConnect(t) ==
    LET r == req[t]
        o == ConnectOutcome
        a == [r EXCEPT !.opened = @ + Attempts(o)]
    IN  /\ r.pc = "L111"
        /\ Local(t, IF o = "ok" THEN [a EXCEPT !.pc = "L118", !.conns = {"c111"}]
                    ELSE Raise(a, TRUE))
        /\ UNCHANGED accepted

\* Lines 113-124: cursor.execute(INSERT ...).  The row gets its id and is
\* held by the open transaction; on an error finally closes the connection.
InsertExecute(t) ==
    LET r == req[t]
        ok == dbUp /\ tableExists /\ NotNullOk(r.body)
        row == InsertedRow(r.body, InsertedId(autoInc, rows), r.no)
    IN  /\ r.pc = "L118"
        /\ Put(t, IF ok THEN [r EXCEPT !.pc = "L125", !.stmt = TRUE, !.pending = {row}]
                  ELSE Raise([r EXCEPT !.stmt = TRUE], ~dbUp))
        /\ autoInc' = IF ok THEN AutoIncAfter(autoInc) ELSE autoInc
        /\ UNCHANGED <<environ, dbUp, tableExists, rows, orphans, accepted, acked>>

\* Lines 125-127 and 44: connection.commit() makes the row part of the
\* table, finally closes the connection, and create_event answers 201.
CommitAndRespond(r, committed) ==
    [rows |-> committed \cup r.pending,
     req |-> [Respond(r, 201, CreatedReply) EXCEPT !.conns = {}, !.pending = {}]]

\* Line 125.  When the commit fails the server rolls the transaction back:
\* the row is gone, its id is not handed out again.
InsertCommit(t) ==
    LET r == req[t]
        c == CommitAndRespond(r, rows)
    IN  /\ r.pc = "L125"
        /\ Put(t, IF dbUp THEN c.req ELSE Raise(r, TRUE))
        /\ rows' = IF dbUp THEN c.rows ELSE rows
        /\ acked' = IF dbUp THEN acked \cup {[no |-> r.no, body |-> r.body]} ELSE acked
        /\ UNCHANGED <<environ, dbUp, tableExists, autoInc, orphans, accepted>>

----------------------------------------------------------------------------
\* fetch_data_from_db (lines 129-149)

\* Line 132: connection = get_db_connection()
FetchConnect(t) ==
    LET r == req[t]
        o == ConnectOutcome
        a == [r EXCEPT !.opened = @ + Attempts(o)]
    IN  /\ r.pc = "L132"
        /\ Local(t, IF o = "ok" THEN [a EXCEPT !.pc = "L145", !.conns = {"c132"}]
                    ELSE Raise(a, TRUE))
        /\ UNCHANGED accepted

\* Lines 134-149.  Either line 143 fails before anything is sent, or the
\* SELECT is sent and fails: the server is unreachable, or it rejects the
\* statement, which has no comma between AS `date` and location.  No row
\* is ever fetched; finally closes the connection and the handler answers
\* 500.
FetchExecute(t) ==
    LET r == [req[t] EXCEPT !.at = Cardinality(rows)]
    IN  /\ r.pc = "L145"
        /\ \E sent \in BOOLEAN :
              Local(t, IF sent THEN Raise([r EXCEPT !.stmt = TRUE], ~dbUp)
                       ELSE Raise(r, FALSE))
        /\ UNCHANGED accepted

----------------------------------------------------------------------------
\* Environment

\* The database server becomes unreachable.
DbFails ==
    /\ dbUp
    /\ dbUp' = FALSE
    /\ UNCHANGED <<environ, tableExists, autoInc, rows, req, last, orphans, accepted, acked>>

\* The database server is reachable again.
DbRecovers ==
    /\ ~dbUp
    /\ dbUp' = TRUE
    /\ UNCHANGED <<environ, tableExists, autoInc, rows, req, last, orphans, accepted, acked>>

\* The runtime finalizes an unreferenced Connection: pymysql's __del__
\* closes its socket.
Finalize ==
    /\ orphans > 0
    /\ orphans' = orphans - 1
    /\ UNCHANGED <<environ, dbUp, tableExists, autoInc, rows, req, last, accepted, acked>>

Next ==
    \/ \E t \in Threads : Health(t)
    \/ \E t \in Threads : CreateEvent(t)
    \/ \E t \in Threads : ListEvents(t)
    \/ \E t \in Threads : GetData(t)
    \/ \E t \in Threads : EnsureConnect1(t)
    \/ \E t \in Threads : EnsureConnect2(t)
    \/ \E t \in Threads : EnsureExecute(t)
    \/ \E t \in Threads : EnsureCommit(t)
    \/ \E t \in Threads : InsertConnect(t)
    \/ \E t \in Threads : InsertExecute(t)
    \/ \E t \in Threads : InsertCommit(t)
    \/ \E t \in Threads : FetchConnect(t)
    \/ \E t \in Threads : FetchExecute(t)
    \/ DbFails
    \/ DbRecovers
    \/ Finalize

Spec == Init /\ [][Next]_vars

----------------------------------------------------------------------------
\* Properties

\* Every request record of the state: those being served and the one
\* answered last.
Records == {req[t] : t \in Threads} \cup {last}

Answered(r) == r.pc = "done"

\* A list request that was answered and met no failure of its environment:
\* the configuration was complete and the server reachable at every call.
ListServed(r) == Answered(r) /\ r.route \in ListRoutes /\ ~r.fault

AllPending == UNION {req[t].pending : t \in Threads}

UniqueIds(S) == \A x, y \in S : x.id = y.id => x = y

\* a <= b for calendar dates <<year, month, day>>
DateLeq(a, b) ==
    \/ a[1] < b[1]
    \/ a[1] = b[1] /\ a[2] < b[2]
    \/ a[1] = b[1] /\ a[2] = b[2] /\ a[3] <= b[3]

\* The listed record rec reports the fields of the creation payload body.
Reports(rec, body) ==
    /\ rec.title = body.title
    /\ rec.date = StoreDate(body.date)
    /\ rec.description = body.description
    /\ rec.image_url = body.image_url
    /\ rec.location = body.location

\* The listed record rec is the committed row x, column by column.
Lists(rec, x) ==
    /\ rec.id = x.id /\ rec.title = x.title /\ rec.date = x.date
    /\ rec.description = x.description /\ rec.image_url = x.image_url
    /\ rec.location = x.location

\* No list request is ever answered with a listing: whatever the state of
\* the database, fetch_data_from_db raises and the handler answers 500.
ListNeverSucceeds ==
    \A r \in Records : Answered(r) /\ r.route \in ListRoutes =>
        r.status = 500 /\ r.result = <<>>

\* C1: a list operation served after a creation was answered 201 returns a
\* record with the title, date, description, image_url and location of that
\* creation's payload, the omitted optional fields null.
C1_ListReturnsCreated ==
    ListServed(last) /\ last.seen # {} =>
        /\ last.status = 200
        /\ \A a \in last.seen :
              \E i \in DOMAIN last.result : Reports(last.result[i], a.body)

\* What C2 calls a body without the required fields: absent, malformed, or
\* an object whose title or date is missing or empty.
LacksRequired(body) ==
    \/ body.kind \in {"absent", "malformed"}
    \/ body.kind = "object" /\ (body.title \in {NoneVal, ""} \/ body.date \in {NoneVal, ""})

\* C2: a POST /events whose body is absent, malformed, or an object without
\* a non-empty title and a non-empty date is answered 400 with the
\* missing-fields error, adds no row and opens no connection; every row of
\* the table has a non-empty title and a date.
C2_InvalidCreateRejected ==
    /\ \A r \in Records :
          r.route = CREATE_EVENT /\ r.no > 0 /\ LacksRequired(r.body) =>
              /\ Answered(r) /\ r.status = 400 /\ r.reply = MissingReply
              /\ r.opened = 0 /\ r.conns = {} /\ r.pending = {}
              /\ \A x \in rows : x.req # r.no
    /\ \A x \in rows \cup AllPending :
          x.title \notin {NoneVal, ""} /\ x.date # <<0, 0, 0>>

C2_Witness ==
    /\ last.route = CREATE_EVENT /\ last.body.kind = "object"
    /\ last.body.title = "Launch" /\ last.body.date = ""
    /\ last.status = 400
    /\ rows # {}

C4_EnsureBeforeStatement ==
    \A r \in Records :
        /\ r.stmt => r.ensured
        /\ r.pc \in {"L111", "L118", "L125", "L132", "L145"} => r.ensured
        /\ Answered(r) /\ r.opened > 0 /\ ~r.ensured => r.status = 500 /\ ~r.stmt

C4_Witness ==
    /\ last.route = CREATE_EVENT /\ last.status = 201 /\ last.stmt /\ last.ensured
    /\ \E t \in Threads : req[t].pc = "L145" /\ req[t].ensured

\* C5: when no request is being served, no database connection is open.
C5_NoConnectionLeftOpen ==
    (\A t \in Threads : req[t].pc = "idle") => OpenConnections = 0

\* What C6 calls a request that needs persistence: a list, or a creation
\* whose body is an object with a non-empty title and a non-empty date.
NeedsPersistence(r) ==
    \/ r.route \in ListRoutes
    \/ /\ r.route = CREATE_EVENT /\ r.body.kind = "object"
       /\ r.body.title \notin {NoneVal, ""} /\ r.body.date \notin {NoneVal, ""}

ConfigAbsent == \E v \in RequiredVars : v \notin environ

\* C6: with one of DB_HOST, DB_USER, DB_PASSWORD, DB_NAME absent or empty,
\* every request that needs persistence is answered 500, no connection is
\* attempted or open, no row is persisted, and no request is left
\* unanswered past its first database call.
C6_MissingConfigIs500 ==
    ConfigAbsent =>
        /\ \A r \in Records :
              /\ r.opened = 0
              /\ r.pc \in {"idle", "done", "L87"}
              /\ Answered(r) /\ NeedsPersistence(r) => r.status = 500
        /\ OpenConnections = 0
        /\ rows = {} /\ AllPending = {}

C6_Witness ==
    /\ ConfigAbsent /\ dbUp
    /\ last.no = 2 /\ last.route = CREATE_EVENT /\ NeedsPersistence(last)
    /\ last.status = 500

\* C7: the table is append-only: a committed row stays as it is, ids are
\* unique, and a row receives, when it is inserted, an id greater than the
\* id of every row committed or inserted before.
C7_AppendOnly ==
    [][/\ rows \subseteq rows'
       /\ UniqueIds(rows')
       /\ \A x \in AllPending' \ AllPending :
             \A y \in rows \cup AllPending : x.id > y.id]_vars

C7_Witness ==
    \E x, y \in rows : x.id < y.id /\ x.req < y.req

C9_HealthAlways200 ==
    [][last'.no # last.no /\ last'.route = HEALTH =>
          /\ last'.status = 200 /\ last'.reply = HealthyReply
          /\ last'.opened = 0 /\ last'.conns = {}
          /\ req' = req
          /\ UNCHANGED <<environ, dbUp, tableExists, autoInc, rows, orphans, acked>>]_vars

C9_Witness ==
    /\ last.route = HEALTH /\ last.status = 200 /\ last.no = 2
    /\ ~dbUp /\ ConfigAbsent

\* C10: under every interleaving, each creation answered 201 has exactly
\* one row in the table, holding its payload; rows of distinct creations
\* have distinct ids; every row belongs to a creation answered 201; and a
\* listing holds committed rows only.
C10_ConcurrentCreations ==
    /\ \A a \in acked :
          /\ Cardinality({x \in rows : x.req = a.no}) = 1
          /\ \A x \in rows : x.req = a.no => Reports(x, a.body)
    /\ \A x, y \in rows \cup AllPending : x.req # y.req => x.id # y.id
    /\ \A x \in rows : \E a \in acked : a.no = x.req
    /\ \A r \in Records : \A i \in DOMAIN r.result :
          \E x \in rows : Lists(r.result[i], x)

\* Two creations were served at the same time, and the one received later
\* inserted first.
C10_Witness ==
    \E x, y \in rows : x.id < y.id /\ x.req > y.req

====
